---- MODULE Spec2Model ----
(***************************************************************************)
(* DynamoDBAdapter (src/src/adapter.rs): a Casbin policy adapter over one  *)
(* DynamoDB table.                                                         *)
(*                                                                         *)
(* A Rust String is a sequence of one-character strings, so that           *)
(* concatenation (format!(",{}", v)), emptiness and the first character    *)
(* are what they are in the code.  A stored item is a function from        *)
(* attribute names to strings.  md5 followed by hex formatting is          *)
(* modelled as a tag in front of the hashed line: equal lines give equal   *)
(* ids, different lines different ids (no MD5 collision among the inputs   *)
(* of the model).                                                          *)
(*                                                                         *)
(* The table is the set of its items, at most one per id.  The store is    *)
(* DynamoDB: PutItem replaces the item with the same key, DeleteItem with  *)
(* ReturnValues ALL_OLD returns the deleted item if there was one, Scan    *)
(* returns the items in an order the caller does not control, and          *)
(* BatchWriteItem rejects a request list that is empty, longer than 25 or  *)
(* that names one key twice.  Every store call may also fail (transport).  *)
(* A batch that the store accepts is applied whole.                        *)
(***************************************************************************)
EXTENDS Integers, Sequences, FiniteSets, TLC

VARIABLES
    table,        \* the DynamoDB table: a set of items
    is_filtered,  \* DynamoDBAdapter.is_filtered
    pc,           \* "idle", "loop" (in a page loop), "await" (a batch-write
                  \* is in flight), "panicked"
    op,           \* the operation running, or the last one when pc = "idle"
    ret,          \* what the last operation returned ("none" while running)
    items,        \* the items / ids vector of the running bulk operation
    page,         \* the loop variable `page` of the running bulk operation
    calls,        \* the batch-write requests this operation has issued
    inflight,     \* batch-write calls issued and not yet completed
    pre,          \* the table when the operation was called
    preFlag,      \* is_filtered when the operation was called
    scan,         \* what the operation's Scan returned, in order
    sink,         \* the m.add_policy calls of the operation, in order
    prev,         \* the operation completed before `op` (add/save only)
    cin,          \* codec harness: <<ptype, rule>> given to policy_to_item
    citem,        \* codec harness: <<item>> once policy_to_item has built it
    cout          \* codec harness: <<ptype, rule>> once item_to_policy has run

vars == <<table, is_filtered, pc, op, ret, items, page, calls, inflight,
          pre, preFlag, scan, sink, prev, cin, citem, cout>>

adapterVars == <<table, is_filtered, pc, op, ret, items, page, calls,
                 inflight, pre, preFlag, scan, sink, prev>>

codecVars == <<cin, citem, cout>>

(***************************************************************************)
(* Bounds of the model and constants of the program.                       *)
(***************************************************************************)
MaxTable == 2         \* items the table may hold in Spec
MaxScanPerm == 3      \* Scan results up to this size come in every order
MaxCodecLen == 6      \* longest rule of the codec harness
MaxBulk == 26         \* longest list of the bulk specification
PageSize == 25        \* the 25 of the page loops
NumFields == 6        \* the 6 of `for i in 0..6`

None == "none"

\* Strings of the model.
E == <<>>
A == <<"a">>
B == <<"b">>
AcB == <<"a", ",", "b">>
P == <<"p">>
G == <<"g">>
Comma == <<",">>

Range(s) == {s[i] : i \in DOMAIN s}

RECURSIVE SetToSeq(_)
SetToSeq(S) ==
    IF S = {} THEN <<>>
    ELSE LET x == CHOOSE y \in S : TRUE IN <<x>> \o SetToSeq(S \ {x})

Reverse(s) == [i \in 1..Len(s) |-> s[Len(s) + 1 - i]]

Perms(S) ==
    {s \in [1..Cardinality(S) -> S] : \A i, j \in 1..Cardinality(S) : i # j => s[i] # s[j]}

(***************************************************************************)
(* Record codec.                                                           *)
(***************************************************************************)
\* format!("v{}", i)
VKey(i) == <<"v0", "v1", "v2", "v3", "v4", "v5", "v6", "v7", "v8", "v9">>[i + 1]

\* md5::compute(line) rendered with {:x}
Md5Hex(line) == <<"md5:">> \o line

\* the loop of get_item_id: rule.get(i) for i in 0..6
RECURSIVE IdLine(_, _, _)
IdLine(line, rule, i) ==
    IF i >= NumFields THEN line
    ELSE IF i < Len(rule) THEN IdLine(line \o Comma \o rule[i + 1], rule, i + 1)
    ELSE IdLine(line, rule, i + 1)

get_item_id(ptype, rule) == Md5Hex(IdLine(ptype, rule, 0))

\* item.insert(key, value): a HashMap insert replaces the value of the key
Insert(item, key, value) ==
    [k \in (DOMAIN item) \cup {key} |-> IF k = key THEN value ELSE item[k]]

EmptyItem == [k \in {} |-> E]

\* the loop of policy_to_item: a field that is there and not empty is stored
\* a variant of the encoder's loop that stops one field early
RECURSIVE ItemFieldsFive(_, _, _)
ItemFieldsFive(item, rule, i) ==
    IF i >= NumFields - 1 THEN item
    ELSE IF i < Len(rule) /\ rule[i + 1] # E
         THEN ItemFieldsFive(Insert(item, VKey(i), rule[i + 1]), rule, i + 1)
         ELSE ItemFieldsFive(item, rule, i + 1)

RECURSIVE ItemFields(_, _, _)
ItemFields(item, rule, i) ==
    IF i >= NumFields THEN item
    ELSE IF i < Len(rule) /\ rule[i + 1] # E
         THEN ItemFields(Insert(item, VKey(i), rule[i + 1]), rule, i + 1)
         ELSE ItemFields(item, rule, i + 1)

policy_to_item(ptype, rule) ==
    Insert(ItemFields(Insert(EmptyItem, "pType", ptype), rule, 0),
           "id", get_item_id(ptype, rule))

\* the six `if let Some(att) = item.get("vN")` of item_to_policy, in order
RECURSIVE PolicyFields(_, _, _)
PolicyFields(item, rule, i) ==
    IF i >= NumFields THEN rule
    ELSE IF VKey(i) \in DOMAIN item
         THEN PolicyFields(item, Append(rule, item[VKey(i)]), i + 1)
         ELSE PolicyFields(item, rule, i + 1)

\* item_to_policy without its last block, the one that reads v5
ItemToPolicyNoV5(item) ==
    <<IF "pType" \in DOMAIN item THEN item["pType"] ELSE E,
      PolicyFields([k \in (DOMAIN item) \ {"v5"} |-> item[k]], <<>>, 0)>>

item_to_policy(item) ==
    <<IF "pType" \in DOMAIN item THEN item["pType"] ELSE E,
      PolicyFields(item, <<>>, 0)>>

(***************************************************************************)
(* The store: DynamoDB, one table with the hash key "id".                  *)
(***************************************************************************)
\* a put that adds the item and leaves the one that has its key
PutItemNoReplace(t, item) == t \cup {item}

\* PutItem: the item replaces the one that has its key
PutItem(t, item) == {r \in t : r["id"] # item["id"]} \cup {item}

\* DeleteItem
DeleteItem(t, id) == {r \in t : r["id"] # id}

\* a response whose Attributes are always there
OldItemsAlways(t, id) == {EmptyItem}

\* the Attributes of a DeleteItem with ReturnValues ALL_OLD
OldItems(t, id) == {r \in t : r["id"] = id}

PutRequest(item) == [kind |-> "put", item |-> item, key |-> item["id"]]
DeleteRequest(id) == [kind |-> "delete", item |-> EmptyItem, key |-> id]

\* BatchWriteItem takes 1 to 25 requests, no two on one key
BatchValid(vec) ==
    /\ Len(vec) >= 1
    /\ Len(vec) <= 25
    /\ Cardinality({vec[i].key : i \in 1..Len(vec)}) = Len(vec)

\* BatchWriteItem on an accepted request list: every put and every delete is
\* done; the keys differ, so the order of the requests does not matter
BatchWriteItem(t, vec) ==
    {r \in t : \A i \in 1..Len(vec) : vec[i].key # r["id"]}
        \cup {vec[i].item : i \in {j \in 1..Len(vec) : vec[j].kind = "put"}}

\* Scan returns the items in some order: every order of a small table, two
\* orders of a larger one
ScanOrders(S) ==
    IF Cardinality(S) <= MaxScanPerm THEN Perms(S)
    ELSE {SetToSeq(S), Reverse(SetToSeq(S))}

\* the store's evaluation of a filter expression, a list of
\* (attribute, value) equalities, on one item
FilterHolds(item, conds) ==
    \A n \in 1..Len(conds) :
        conds[n][1] \in DOMAIN item /\ item[conds[n][1]] = conds[n][2]

\* scan().into_paginator().items().send().collect(): the possible results
Scan(t, conds) == ScanOrders({r \in t : FilterHolds(r, conds)})

\* "#pType = :pType AND #vI = :vI ..." as the list of (attribute, value) pairs
\* that remove_filtered_policy puts into names and values
RECURSIVE FilterConds(_, _, _, _)
FilterConds(conds, field_index, field_values, pos) ==
    IF pos >= Len(field_values) THEN conds
    ELSE IF field_values[pos + 1] # E
         THEN FilterConds(Append(conds, <<VKey(field_index + pos), field_values[pos + 1]>>),
                          field_index, field_values, pos + 1)
         ELSE FilterConds(conds, field_index, field_values, pos + 1)

\* `for item in items { if let Some(att) = item.get("id") ... ids.push }`
RECURSIVE CollectIds(_, _, _)
CollectIds(ids, its, i) ==
    IF i > Len(its) THEN ids
    ELSE IF "id" \in DOMAIN its[i]
         THEN CollectIds(Append(ids, its[i]["id"]), its, i + 1)
         ELSE CollectIds(ids, its, i + 1)

(***************************************************************************)
(* load_filtered_policy_into_model.                                        *)
(***************************************************************************)
\* `for (i, rule) in f.iter().enumerate()`: i counts from 0; policy[i] panics
\* when i is not an index of policy, and is read only for a non-empty pattern
RECURSIVE MatchLoop(_, _, _, _)
MatchLoop(f, policy, i, skip_policy) ==
    IF i >= Len(f) THEN (IF skip_policy THEN "skip" ELSE "keep")
    ELSE IF f[i + 1] # E
         THEN IF i >= Len(policy) THEN "panic"
              ELSE IF f[i + 1] # policy[i + 1] THEN MatchLoop(f, policy, i + 1, TRUE)
              ELSE MatchLoop(f, policy, i + 1, skip_policy)
         ELSE MatchLoop(f, policy, i + 1, skip_policy)

\* the section character and the pattern list it selects
Sec(ptype) == <<ptype[1]>>

\* the p-patterns for every section
SecFilterAlwaysP(ptype, f) == f.p

SecFilter(ptype, f) == IF ptype[1] = "p" THEN f.p ELSE f.g

\* a load loop that steps over a record that decodes empty
RECURSIVE LoadLoopSkipBad(_, _, _, _, _)
LoadLoopSkipBad(its, f, i, added, filtered) ==
    IF i > Len(its) THEN [res |-> "ok", sink |-> added, filtered |-> filtered]
    ELSE LET tp == item_to_policy(its[i])
             ptype == tp[1]
             policy == tp[2]
         IN  IF ptype = E \/ policy = E
             THEN LET r == LoadLoopSkipBad(its, f, i + 1, added, filtered)
                  IN  [r EXCEPT !.res = IF @ = "ok" THEN "invalid_load_policy" ELSE @]
             ELSE LET m == MatchLoop(SecFilter(ptype, f), policy, 0, FALSE)
                  IN  IF m = "panic"
                      THEN [res |-> "panic", sink |-> added, filtered |-> filtered]
                      ELSE IF m = "keep"
                      THEN LoadLoopSkipBad(its, f, i + 1,
                               Append(added, <<Sec(ptype), ptype, policy>>), filtered)
                      ELSE LoadLoopSkipBad(its, f, i + 1, added, TRUE)

\* `for item in items`: the result, the m.add_policy calls made, and `filtered`
RECURSIVE LoadLoop(_, _, _, _, _)
LoadLoop(its, f, i, added, filtered) ==
    IF i > Len(its) THEN [res |-> "ok", sink |-> added, filtered |-> filtered]
    ELSE LET tp == item_to_policy(its[i])
             ptype == tp[1]
             policy == tp[2]
         IN  IF ptype = E \/ policy = E
             THEN [res |-> "invalid_load_policy", sink |-> added, filtered |-> filtered]
             ELSE LET m == MatchLoop(SecFilter(ptype, f), policy, 0, FALSE)
                  IN  IF m = "panic"
                      THEN [res |-> "panic", sink |-> added, filtered |-> filtered]
                      ELSE IF m = "keep"
                      THEN LoadLoop(its, f, i + 1,
                                    Append(added, <<Sec(ptype), ptype, policy>>), filtered)
                      ELSE LoadLoop(its, f, i + 1, added, TRUE)

load_filtered_policy_into_model(its, f) == LoadLoop(its, f, 1, <<>>, FALSE)

NoFilter == [p |-> <<>>, g |-> <<>>]

(***************************************************************************)
(* The adapter's operations.  An operation is called when none is running  *)
(* (every mutating method takes &mut self).                                *)
(***************************************************************************)
Other == [name |-> "other", arg |-> <<>>]

\* what `prev` keeps of the operation that has just completed
Summary ==
    IF op.name \in {"add_policy", "save_policy"} /\ ret \in {"true", "ok"}
    THEN op ELSE Other

Call(name, arg) ==
    /\ pc = "idle"
    /\ op' = [name |-> name, arg |-> arg]
    /\ prev' = Summary
    /\ pre' = table
    /\ preFlag' = is_filtered

Return(r) == pc' = "idle" /\ ret' = r

NoBatch == items' = <<>> /\ page' = 0 /\ calls' = <<>> /\ inflight' = inflight

NoLoad == scan' = <<>> /\ sink' = <<>>

\* add_policy: policy_to_item, put_item, Ok(true)
AddPolicy(ptype, rule, ok) ==
    /\ Call("add_policy", [ptype |-> ptype, rule |-> rule])
    /\ IF ok
       THEN table' = PutItem(table, policy_to_item(ptype, rule)) /\ Return("true")
       ELSE table' = table /\ Return("store_error")
    /\ NoBatch /\ NoLoad
    /\ UNCHANGED <<is_filtered, codecVars>>

\* remove_policy: get_item_id, delete_item returning the old item
RemovePolicy(ptype, rule, ok) ==
    /\ Call("remove_policy", [ptype |-> ptype, rule |-> rule])
    /\ LET id == get_item_id(ptype, rule)
       IN  IF ok
           THEN /\ table' = DeleteItem(table, id)
                /\ Return(IF OldItems(table, id) # {} THEN "true" ELSE "false")
           ELSE table' = table /\ Return("store_error")
    /\ NoBatch /\ NoLoad
    /\ UNCHANGED <<is_filtered, codecVars>>

\* what a load does with the outcome of load_filtered_policy_into_model
LoadOutcome(order, f, ok) ==
    IF ok
    THEN LET r == load_filtered_policy_into_model(order, f)
         IN  /\ scan' = order
             /\ sink' = r.sink
             /\ IF r.res = "panic" THEN pc' = "panicked" /\ ret' = "panic"
                ELSE Return(r.res)
    ELSE scan' = <<>> /\ sink' = <<>> /\ Return("store_error")

\* a flag that is only ever set
FlagAfterSticky(r, flag) == IF r.res = "ok" THEN flag \/ r.filtered ELSE flag

\* `self.is_filtered = self.load_filtered_policy_into_model(m, f).await?`:
\* the assignment happens when the result is Ok
FlagAfter(r, flag) == IF r.res = "ok" THEN r.filtered ELSE flag

\* load_policy(&self): the flag cannot be assigned
LoadPolicy(ok) ==
    /\ Call("load_policy", [filter |-> NoFilter])
    /\ \E order \in Scan(table, <<>>) : LoadOutcome(order, NoFilter, ok)
    /\ is_filtered' = is_filtered
    /\ NoBatch
    /\ UNCHANGED <<table, codecVars>>

\* load_filtered_policy(&mut self)
LoadFilteredPolicy(f, ok) ==
    /\ Call("load_filtered_policy", [filter |-> f])
    /\ \E order \in Scan(table, <<>>) :
          /\ LoadOutcome(order, f, ok)
          /\ is_filtered' =
                IF ok THEN FlagAfter(load_filtered_policy_into_model(order, f), is_filtered)
                ELSE is_filtered
    /\ NoBatch
    /\ UNCHANGED <<table, codecVars>>

\* The head of a bulk operation: its list is empty and it returns, or it
\* enters the page loop.
EnterLoop(its, emptyRet) ==
    /\ IF its = <<>>
       THEN Return(emptyRet)
       ELSE pc' = "loop" /\ ret' = None
    /\ items' = its /\ page' = 0 /\ calls' = <<>> /\ inflight' = inflight
    /\ table' = table

\* `for sec in vec!["p", "g"]`: the rules of section p, then those of section g
SaveItems(m) ==
    LET enc(t) == policy_to_item(t[1], t[2])
        inSec(c) == SelectSeq(m, LAMBDA t : t[1] # E /\ t[1][1] = c)
        sp == inSec("p")
        sg == inSec("g")
    IN  [i \in 1..Len(sp) |-> enc(sp[i])] \o [i \in 1..Len(sg) |-> enc(sg[i])]

SavePolicy(m) ==
    /\ Call("save_policy", [m |-> m])
    /\ EnterLoop(SaveItems(m), "ok")
    /\ NoLoad
    /\ UNCHANGED <<is_filtered, codecVars>>

ClearPolicy(ok) ==
    /\ Call("clear_policy", <<>>)
    /\ IF ok
       THEN \E order \in Scan(table, <<>>) :
               scan' = order /\ EnterLoop(CollectIds(<<>>, order, 1), "ok")
       ELSE /\ scan' = <<>> /\ Return("store_error") /\ table' = table
            /\ NoBatch
    /\ sink' = <<>>
    /\ UNCHANGED <<is_filtered, codecVars>>

AddPolicies(ptype, rules) ==
    /\ Call("add_policies", [ptype |-> ptype, rules |-> rules])
    /\ EnterLoop(rules, "false")
    /\ NoLoad
    /\ UNCHANGED <<is_filtered, codecVars>>

RemovePolicies(ptype, rules) ==
    /\ Call("remove_policies", [ptype |-> ptype, rules |-> rules])
    /\ EnterLoop(rules, "false")
    /\ NoLoad
    /\ UNCHANGED <<is_filtered, codecVars>>

\* the filter of remove_filtered_policy: pType first, then the fields
RemoveFilter(ptype, field_index, field_values) ==
    FilterConds(<<<<"pType", ptype>>>>, field_index, field_values, 0)

RemoveFilteredPolicy(ptype, field_index, field_values, ok) ==
    /\ Call("remove_filtered_policy",
            [ptype |-> ptype, field_index |-> field_index, field_values |-> field_values])
    /\ IF field_values = <<>>
       THEN scan' = <<>> /\ Return("false") /\ table' = table /\ NoBatch
       ELSE IF ok
       THEN \E order \in Scan(table, RemoveFilter(ptype, field_index, field_values)) :
               scan' = order /\ EnterLoop(CollectIds(<<>>, order, 1), "false")
       ELSE scan' = <<>> /\ Return("store_error") /\ table' = table /\ NoBatch
    /\ sink' = <<>>
    /\ UNCHANGED <<is_filtered, codecVars>>

(***************************************************************************)
(* The page loop, the same in the five bulk operations.                    *)
(***************************************************************************)
\* let pages = (len / 25) + 1
Pages(n) == (n \div PageSize) + 1

PageStart(pg) == pg * PageSize

PageEnd(pg, n) ==
    IF PageStart(pg) + PageSize >= n THEN n ELSE PageStart(pg) + PageSize

\* the WriteRequest each operation builds from one element of its list
MakeRequest(o, x) ==
    IF o.name = "save_policy" THEN PutRequest(x)
    ELSE IF o.name = "add_policies" THEN PutRequest(policy_to_item(o.arg.ptype, x))
    ELSE IF o.name = "remove_policies" THEN DeleteRequest(get_item_id(o.arg.ptype, x))
    ELSE DeleteRequest(x)

\* `for i in x..y { if let Some(..) = list.get(i) { vec.push(..) } }`
PageVec(o, its, pg) ==
    LET x == PageStart(pg)
        y == PageEnd(pg, Len(its))
    IN  [i \in 1..(y - x) |-> MakeRequest(o, its[x + i])]

\* a send that is not awaited: the loop goes on
AfterSendNoAwait == "loop"

\* where the operation is after it has sent a batch: at the .await
AfterSend == "await"

\* the value an operation returns after its last page
FinalRet(o) == IF o.name \in {"save_policy", "clear_policy"} THEN "ok" ELSE "true"

\* batch_write_item().set_request_items(..).send()
IssueBatch ==
    /\ pc = "loop"
    /\ calls' = Append(calls, PageVec(op, items, page))
    /\ inflight' = inflight + 1
    /\ pc' = AfterSend
    /\ UNCHANGED <<table, is_filtered, op, ret, items, page, pre, preFlag,
                   scan, sink, prev, codecVars>>

\* .await returns Ok: next page, or the end of the loop and the return
BatchOk ==
    /\ pc = "await"
    /\ BatchValid(calls[Len(calls)])
    /\ table' = BatchWriteItem(table, calls[Len(calls)])
    /\ inflight' = inflight - 1
    /\ page' = page + 1
    /\ IF page + 1 < Pages(Len(items))
       THEN pc' = "loop" /\ ret' = ret
       ELSE Return(FinalRet(op))
    /\ UNCHANGED <<is_filtered, op, items, calls, pre, preFlag, scan, sink,
                   prev, codecVars>>

\* .await returns Err because the store rejects the request: `?` returns it
BatchRejected ==
    /\ pc = "await"
    /\ ~BatchValid(calls[Len(calls)])
    /\ inflight' = inflight - 1
    /\ Return("store_rejected")
    /\ UNCHANGED <<table, is_filtered, op, items, page, calls, pre, preFlag,
                   scan, sink, prev, codecVars>>

\* .await returns Err because the call failed on its way: `?` returns it
BatchErr ==
    /\ pc = "await"
    /\ inflight' = inflight - 1
    /\ Return("store_error")
    /\ UNCHANGED <<table, is_filtered, op, items, page, calls, pre, preFlag,
                   scan, sink, prev, codecVars>>

(***************************************************************************)
(* Spec: the adapter over a small universe of tuples.                      *)
(***************************************************************************)
AdapterInit ==
    /\ table = {}
    /\ is_filtered = FALSE
    /\ pc = "idle"
    /\ op = [name |-> "new", arg |-> <<>>]
    /\ ret = None
    /\ items = <<>> /\ page = 0 /\ calls = <<>> /\ inflight = 0
    /\ pre = {} /\ preFlag = FALSE
    /\ scan = <<>> /\ sink = <<>>
    /\ prev = Other

CodecIdle == cin = <<>> /\ citem = <<>> /\ cout = <<>>

Init == AdapterInit /\ CodecIdle

\* (ptype, rule): a plain p-rule, one whose field holds a comma (same id line
\* as the first), two g-rules, a rule with an empty first field, a rule with
\* an empty type and a rule without fields
Tuples ==
    { <<P, <<A, B>>>>, <<P, <<AcB>>>>, <<G, <<A, B>>>>, <<G, <<A>>>>,
      <<P, <<E, B>>>>, <<E, <<A>>>>, <<G, <<>>>> }

\* (ptype, rules) of add_policies and remove_policies: no rule, one rule,
\* two rules, one rule twice
RuleLists ==
    { <<P, <<>>>>, <<P, <<<<A, B>>>>>>, <<G, <<<<A, B>>, <<A>>>>>>,
      <<G, <<<<A>>, <<A>>>>>> }

Models ==
    { <<>>, <<<<P, <<A, B>>>>>>, <<<<G, <<A>>>>, <<P, <<A, B>>>>>>,
      <<<<P, <<AcB>>>>, <<G, <<A, B>>>>>> }

Filters ==
    { NoFilter, [p |-> <<E, B>>, g |-> <<>>], [p |-> <<B>>, g |-> <<E, E>>] }

\* (ptype, field_index, field_values) of remove_filtered_policy
RemoveFilterArgs ==
    { <<G, 0, <<>>>>, <<G, 0, <<A>>>>, <<G, 0, <<A, B>>>>, <<G, 0, <<E, B>>>>,
      <<G, 1, <<B>>>>, <<P, 0, <<A>>>>, <<P, 1, <<B>>>> }

\* the table of Spec holds at most MaxTable items
Room(n) == Cardinality(table) + n <= MaxTable

Next ==
    \/ \E t \in Tuples, ok \in BOOLEAN :
          /\ Cardinality(table \cup {policy_to_item(t[1], t[2])}) <= MaxTable
          /\ AddPolicy(t[1], t[2], ok)
    \/ \E t \in Tuples, ok \in BOOLEAN : RemovePolicy(t[1], t[2], ok)
    \/ \E ok \in BOOLEAN : LoadPolicy(ok)
    \/ \E f \in Filters, ok \in BOOLEAN : LoadFilteredPolicy(f, ok)
    \/ \E m \in Models : Room(Len(m)) /\ SavePolicy(m)
    \/ \E ok \in BOOLEAN : ClearPolicy(ok)
    \/ \E a \in RuleLists : Room(Len(a[2])) /\ AddPolicies(a[1], a[2])
    \/ \E a \in RuleLists : RemovePolicies(a[1], a[2])
    \/ \E a \in RemoveFilterArgs, ok \in BOOLEAN :
          RemoveFilteredPolicy(a[1], a[2], a[3], ok)
    \/ IssueBatch
    \/ BatchOk
    \/ BatchRejected
    \/ BatchErr

Spec == Init /\ [][Next]_vars

(***************************************************************************)
(* SpecBulk: the bulk operations on lists long enough to need more than    *)
(* one page.  Rule n of the list is ["a", "<n in two digits>"], of type g. *)
(***************************************************************************)
Digits == <<"0", "1", "2", "3", "4", "5", "6", "7", "8", "9">>

Num(n) == <<Digits[(n \div 10) + 1], Digits[(n % 10) + 1]>>

BulkRule(n) == <<A, Num(n)>>

BulkRules(n) == [i \in 1..n |-> BulkRule(i)]

BulkModel(n) == [i \in 1..n |-> <<G, BulkRule(i)>>]

BulkSizes == {0, 1, PageSize - 1, PageSize, MaxBulk}

NextBulk ==
    \/ \E n \in BulkSizes : AddPolicies(G, BulkRules(n))
    \/ \E n \in BulkSizes : RemovePolicies(G, BulkRules(n))
    \/ \E n \in BulkSizes : SavePolicy(BulkModel(n))
    \/ \E ok \in BOOLEAN : ClearPolicy(ok)
    \/ \E ok \in BOOLEAN : RemoveFilteredPolicy(G, 0, <<A>>, ok)
    \/ IssueBatch
    \/ BatchOk
    \/ BatchRejected
    \/ BatchErr

SpecBulk == Init /\ [][NextBulk]_vars

(***************************************************************************)
(* SpecCodec: policy_to_item and item_to_policy on every type and rule of  *)
(* a bounded set.                                                          *)
(***************************************************************************)
CodecFields == {E, A, B}

CodecPTypes == {P, G, E}

RulesUpTo(n) == UNION {[1..k -> CodecFields] : k \in 0..n}

CodecInit ==
    /\ AdapterInit
    /\ cin \in CodecPTypes \X RulesUpTo(MaxCodecLen)
    /\ citem = <<>>
    /\ cout = <<>>

Encode ==
    /\ citem = <<>>
    /\ citem' = <<policy_to_item(cin[1], cin[2])>>
    /\ UNCHANGED <<cin, cout, adapterVars>>

Decode ==
    /\ citem # <<>>
    /\ cout = <<>>
    /\ cout' = item_to_policy(citem[1])
    /\ UNCHANGED <<cin, citem, adapterVars>>

NextCodec == Encode \/ Decode

SpecCodec == CodecInit /\ [][NextCodec]_vars

(***************************************************************************)
(* Properties.                                                             *)
(***************************************************************************)
\* a rule of 1 to 6 fields, none of them empty
WellFormedRule(rule) ==
    /\ Len(rule) >= 1
    /\ Len(rule) <= 6
    /\ \A i \in 1..Len(rule) : rule[i] # E

\* a returned operation
Returned(name) == pc = "idle" /\ op.name = name

\* the tuple of a stored item, and the tuple as the sink receives it
Stored(item) == item_to_policy(item)

Tagged(tp) == <<<<tp[1][1]>>, tp[1], tp[2]>>

\* every non-empty pattern of the tuple's section equals the tuple's field at
\* the pattern's position
Wanted(tp, f) ==
    LET pats == IF tp[1][1] = "p" THEN f.p ELSE f.g
    IN  \A i \in 1..Len(pats) :
            pats[i] # E => (i <= Len(tp[2]) /\ tp[2][i] = pats[i])

\* a scanned item that decodes to an empty type or an empty field list
Corrupt(item) == Stored(item)[1] = E \/ Stored(item)[2] = E

\* C1: after a successful save_policy of a model whose rules are well-formed,
\* a successful load_policy into an empty sink delivers exactly the model's
\* tuples, each once, tagged with the first character of its type, whatever
\* the table held before the save.
C1_SaveThenLoad ==
    ( /\ Returned("load_policy")
      /\ ret = "ok"
      /\ prev.name = "save_policy"
      /\ prev.arg.m # <<>>
      /\ \A t \in Range(prev.arg.m) : WellFormedRule(t[2]) )
    => /\ Range(sink) = {Tagged(t) : t \in Range(prev.arg.m)}
       /\ Len(sink) = Cardinality(Range(prev.arg.m))

\* C2: remove_policy returns true exactly when the table held an item with
\* the id derived from (ptype, rule); afterwards no item has that id and every
\* other item is as it was; add_policy then remove_policy of one tuple
\* returns true.
C2_RemovePolicy ==
    (Returned("remove_policy") /\ ret # "store_error")
    => LET id == get_item_id(op.arg.ptype, op.arg.rule)
       IN  /\ ret \in {"true", "false"}
           /\ (ret = "true") <=> (\E r \in pre : r["id"] = id)
           /\ \A r \in table : r["id"] # id
           /\ table = {r \in pre : r["id"] # id}
           /\ (prev.name = "add_policy" /\ prev.arg = op.arg) => ret = "true"

C2_Witness ==
    /\ Returned("remove_policy")
    /\ ret = "true"
    /\ prev.name = "add_policy"
    /\ prev.arg = op.arg
    /\ table # {}

\* the items the filter of remove_filtered_policy selects, as C3 states it
C3_Matches(r, a) ==
    /\ "pType" \in DOMAIN r
    /\ r["pType"] = a.ptype
    /\ \A pos \in 1..Len(a.field_values) :
          a.field_values[pos] # E =>
             /\ VKey(a.field_index + pos - 1) \in DOMAIN r
             /\ r[VKey(a.field_index + pos - 1)] = a.field_values[pos]

\* C3: remove_filtered_policy with values deletes exactly the items of the
\* given type whose fields equal the non-empty values, leaves the others, and
\* returns true iff an item matched; without values it returns false and
\* changes nothing.  (Stated for calls during which no store call fails on
\* its way.)
C3_RemoveFiltered ==
    (Returned("remove_filtered_policy") /\ ret # "store_error")
    => LET matched == {r \in pre : C3_Matches(r, op.arg)}
       IN  IF op.arg.field_values = <<>>
           THEN ret = "false" /\ table = pre
           ELSE /\ table = pre \ matched
                /\ (ret = "true") <=> (matched # {})
                /\ ret \in {"true", "false"}

\* C4: a successful load_filtered_policy hands over exactly the stored tuples
\* that are wanted, each stored item once, and if a tuple was skipped
\* is_filtered() is true after the call.
C4_LoadFiltered ==
    (Returned("load_filtered_policy") /\ ret = "ok")
    => LET kept == {i \in 1..Len(scan) : Wanted(Stored(scan[i]), op.arg.filter)}
       IN  /\ Range(scan) = table
           /\ Range(sink) = {Tagged(Stored(scan[i])) : i \in kept}
           /\ Len(sink) = Cardinality(kept)
           /\ (Cardinality(kept) < Len(scan)) => is_filtered

C4_Witness ==
    /\ Returned("load_filtered_policy")
    /\ ret = "ok"
    /\ Len(sink) = 1
    /\ Len(scan) = 2
    /\ is_filtered

\* the load that has just returned skipped a tuple
SkippedSome ==
    \E i \in 1..Len(scan) : ~Wanted(Stored(scan[i]), op.arg.filter)

\* C5 as stated: once set, the flag stays true after every later operation
\* that is not a load_policy.
C5_Sticky ==
    [][(is_filtered /\ op'.name # "load_policy") => is_filtered']_vars

\* C5 amended: only a load_filtered_policy that returns Ok changes the flag,
\* and it sets it to whether that call skipped a tuple (so a later filtered
\* load that skips nothing resets it, and load_policy leaves it as it is).
C5_FlagFollowsLastFilteredLoad ==
    [][IF pc = "idle" /\ op'.name = "load_filtered_policy" /\ ret' = "ok"
       THEN is_filtered' = SkippedSome'
       ELSE is_filtered' = is_filtered]_vars

C5_Witness ==
    /\ Returned("load_filtered_policy")
    /\ ret = "ok"
    /\ preFlag
    /\ ~is_filtered
    /\ scan # <<>>

\* ceil(n / 25)
CeilPages(n) == (n + PageSize - 1) \div PageSize

RECURSIVE Flatten(_)
Flatten(ss) == IF ss = <<>> THEN <<>> ELSE Head(ss) \o Flatten(Tail(ss))

BulkOps ==
    {"save_policy", "clear_policy", "add_policies", "remove_policies",
     "remove_filtered_policy"}

\* C6: a bulk operation on N items issues at most ceil(N/25) batch-writes of
\* at most 25 requests each, and when it has returned successfully it has
\* issued exactly ceil(N/25), which carry the N items once each in their
\* order.
C6_BatchPlan ==
    (op.name \in BulkOps)
    => /\ Len(calls) <= CeilPages(Len(items))
       /\ \A k \in 1..Len(calls) : Len(calls[k]) <= 25
       /\ (pc = "idle" /\ ret \in {"ok", "true"}) =>
             /\ Len(calls) = CeilPages(Len(items))
             /\ Flatten(calls) = [i \in 1..Len(items) |-> MakeRequest(op, items[i])]

\* the table after the first n batches of cs have been applied to t
RECURSIVE AfterBatches(_, _, _)
AfterBatches(t, cs, n) ==
    IF n = 0 THEN t ELSE BatchWriteItem(AfterBatches(t, cs, n - 1), cs[n])

\* C7: the batch-writes of a bulk operation are the pages in page order, at
\* most one is in flight, the next is issued only when the previous one has
\* completed, and when one fails the operation returns the error with no
\* later page issued and with the earlier pages' writes still in the table.
C7_SequentialNoRollback ==
    /\ inflight <= 1
    /\ \A k \in 1..Len(calls) : calls[k] = PageVec(op, items, k - 1)
    /\ pc = "loop" => (inflight = 0 /\ Len(calls) = page)
    /\ pc = "await" => (inflight = 1 /\ Len(calls) = page + 1)
    /\ (pc = "idle" /\ ret \in {"store_error", "store_rejected"} /\ calls # <<>>)
          => /\ Len(calls) = page + 1
             /\ inflight = 0
             /\ table = AfterBatches(pre, calls, page)

C7_Witness ==
    /\ pc = "idle"
    /\ ret = "store_error"
    /\ Len(calls) = 2
    /\ Len(calls[2]) >= 1
    /\ table # pre

\* C8: add_policy of the tuple that the call before it added returns true,
\* leaves the table as the first call left it, and the table holds exactly
\* one item with the tuple's id.
C8_AddTwice ==
    ( /\ Returned("add_policy")
      /\ ret # "store_error"
      /\ prev.name = "add_policy"
      /\ prev.arg = op.arg )
    => /\ ret = "true"
       /\ table = pre
       /\ Cardinality({r \in table :
                          r["id"] = get_item_id(op.arg.ptype, op.arg.rule)}) = 1

C8_Witness ==
    /\ Returned("add_policy")
    /\ ret = "true"
    /\ prev.name = "add_policy"
    /\ prev.arg = op.arg
    /\ Cardinality(table) = 2

\* C9: decoding the item encoded from a type and a rule of 1 to 6 non-empty
\* fields gives the type and the rule back.
C9_RoundTrip ==
    (cout # <<>> /\ WellFormedRule(cin[2])) => cout = cin

C9_Witness ==
    /\ cout # <<>>
    /\ WellFormedRule(cin[2])
    /\ Len(cin[2]) = 6
    /\ cout = cin

\* the m.add_policy calls a load makes for the items its, when none is corrupt
Deliveries(its, f) ==
    LET tps == [i \in 1..Len(its) |-> Stored(its[i])]
        kept == SelectSeq(tps, LAMBDA tp : Wanted(tp, f))
    IN  [i \in 1..Len(kept) |-> Tagged(kept[i])]

\* C10: a load that meets a corrupt item returns "invalid load policy", has
\* handed over what the items before it called for and nothing after, and
\* leaves the flag (and the table) as they were; a load that returns Ok met
\* none.
C10_InvalidLoad ==
    /\ ( /\ pc = "idle"
         /\ op.name \in {"load_policy", "load_filtered_policy"}
         /\ ret = "invalid_load_policy" )
       => \E k \in 1..Len(scan) :
             /\ Corrupt(scan[k])
             /\ \A j \in 1..(k - 1) : ~Corrupt(scan[j])
             /\ sink = Deliveries(SubSeq(scan, 1, k - 1), op.arg.filter)
             /\ is_filtered = preFlag
             /\ table = pre
    /\ ( /\ pc = "idle"
         /\ op.name \in {"load_policy", "load_filtered_policy"}
         /\ ret = "ok" )
       => \A k \in 1..Len(scan) : ~Corrupt(scan[k])

C10_Witness ==
    /\ Returned("load_filtered_policy")
    /\ ret = "invalid_load_policy"
    /\ Len(scan) = 2
    /\ Corrupt(scan[1])
    /\ ~Corrupt(scan[2])
    /\ sink = <<>>

\* the number of attributes v0, v1, ... that the item holds without a gap
ContiguousFields(item) ==
    CHOOSE n \in 0..NumFields :
        /\ \A i \in 0..(n - 1) : VKey(i) \in DOMAIN item
        /\ (n = NumFields \/ VKey(n) \notin DOMAIN item)

\* C11: decoding stops at the first absent attribute: the decoded rule is
\* v0 .. v(n-1), n the number of attributes present without a gap from v0.
C11_StopsAtFirstGap ==
    (cout # <<>>)
    => LET n == ContiguousFields(citem[1])
       IN  cout[2] = [i \in 1..n |-> citem[1][VKey(i - 1)]]

\* a rule none of whose fields is the empty string
NoEmptyField(rule) == \A i \in 1..Len(rule) : rule[i] # E

\* C12 as stated: for every rule, empty-string fields included, the id
\* derived from the decoded tuple equals the id of the encoded item.
C12_IdFromDecoded ==
    (cout # <<>>) => get_item_id(cout[1], cout[2]) = citem[1]["id"]

\* C12 amended: for every rule without an empty-string field, the id derived
\* from the decoded tuple equals the id of the encoded item, so a delete by
\* that id finds the item (remove_policy returns true) and removes it.
C12_IdFromDecodedNoEmpty ==
    (cout # <<>> /\ NoEmptyField(cin[2]))
    => LET id == get_item_id(cout[1], cout[2])
       IN  /\ id = citem[1]["id"]
           /\ OldItems({citem[1]}, id) = {citem[1]}
           /\ DeleteItem({citem[1]}, id) = {}

C12_Witness ==
    /\ cout # <<>>
    /\ Len(cin[2]) = NumFields
    /\ NoEmptyField(cin[2])
    /\ cin[1] = G
    /\ OldItems({citem[1]}, get_item_id(cout[1], cout[2])) = {citem[1]}

\* C13: load_filtered_policy never aborts abnormally: whatever the table
\* and the filter, the call ends by returning success or an error value, a
\* stored tuple shorter than its section's pattern list included.
C13_LoadFilteredNeverAborts ==
    (op.name = "load_filtered_policy") => (pc # "panicked" /\ ret # "panic")

====
